---- MODULE Spec2Model ----
(***************************************************************************)
(* A model of vibeslurm: the command layer (slurm.py), the worker thread   *)
(* and the main window's command dispatch (gui.py), the log tail dialog    *)
(* and the squeue table parser.                                            *)
(*                                                                         *)
(* Text is a sequence of one-character strings.  The two markers "StdOut=" *)
(* and "StdErr=" are single symbols of a text: no other symbol of the      *)
(* alphabets used here can form part of a marker, so substring search and  *)
(* split on a marker are search and split on that symbol.                  *)
(***************************************************************************)
EXTENDS Integers, Sequences, FiniteSets, TLC

\* ---------------------------------------------------------------- bounds
MaxRequests == 2      \* run_slurm_command calls in one behaviour
MaxFileLen == 2       \* bytes a tailed file can hold
MaxShown == 2        \* error placeholders counted in one tail session
MaxLines == 2         \* lines of a generated squeue listing
MaxTokens == 9        \* tokens on a generated squeue line
MaxDetailLen == 5     \* symbols of a generated job detail text

\* ------------------------------------------------------ program constants
Timeout == 30         \* subprocess.run(..., timeout=30)
MinFields == 8        \* len(parts) >= 8

\* Python's None; a text never holds this symbol.
None == <<"<None>">>
Truthy(x) == x # None /\ x # <<>>

\* ------------------------------------------------------------ str methods
Whitespace == {" ", "\n", "\t"}
Digits == {"0", "1", "2", "3", "4", "5", "6", "7", "8", "9"}

\* the one element of a one-element set; Only({e(x) : x \in {v}}) is e(v) with v
\* evaluated once, however often e uses it
Only(S) == CHOOSE r \in S : TRUE

\* the k-th smallest element of a set of numbers
Nth(S, k) == CHOOSE i \in S : Cardinality({j \in S : j < i}) = k - 1

\* str.split(): the maximal runs of non-whitespace, in order
SplitWS(str) ==
    Only({ LET starts == {i \in 1..Len(s) : s[i] \notin Whitespace
                                            /\ (i = 1 \/ s[i - 1] \in Whitespace)}
               EndOf(i) == CHOOSE j \in i..Len(s) :
                             /\ \A k \in i..j : s[k] \notin Whitespace
                             /\ (j = Len(s) \/ s[j + 1] \in Whitespace)
           IN [k \in 1..Cardinality(starts) |->
                 SubSeq(s, Nth(starts, k), EndOf(Nth(starts, k)))] \o <<>>
           : s \in {str} })

\* str.split(sep) for a one-symbol separator: the parts between the separators,
\* always at least one part
SplitSep(str, sep) ==
    Only({ LET cuts == {i \in 1..Len(s) : s[i] = sep}
               From(k) == IF k = 1 THEN 1 ELSE Nth(cuts, k - 1) + 1
               To(k) == IF k = Cardinality(cuts) + 1 THEN Len(s) ELSE Nth(cuts, k) - 1
           IN [k \in 1..(Cardinality(cuts) + 1) |-> SubSeq(s, From(k), To(k))] \o <<>>
           : s \in {str} })

\* str.lstrip(), str.rstrip(), str.strip()
LStrip(str) ==
    Only({ LET keep == {i \in 1..Len(s) : s[i] \notin Whitespace}
           IN IF keep = {} THEN <<>> ELSE SubSeq(s, Nth(keep, 1), Len(s))
           : s \in {str} })

RStrip(str) ==
    Only({ LET keep == {i \in 1..Len(s) : s[i] \notin Whitespace}
           IN IF keep = {} THEN <<>> ELSE SubSeq(s, 1, Nth(keep, Cardinality(keep)))
           : s \in {str} })

Strip(s) == LStrip(RStrip(s))

StartsWith(str, prefix) ==
    \E s \in {str} : Len(s) >= Len(prefix) /\ \A i \in 1..Len(prefix) : s[i] = prefix[i]

Contains(str, sym) == \E s \in {str} : \E i \in 1..Len(s) : s[i] = sym

\* str.isdigit(): non-empty and every character a digit
IsDigit(str) == \E s \in {str} : s # <<>> /\ \A i \in 1..Len(s) : s[i] \in Digits

RECURSIVE JoinSp(_)
\* " ".join(parts)
JoinSp(parts) ==
    IF parts = <<>> THEN <<>>
    ELSE IF Len(parts) = 1 THEN parts[1]
    ELSE parts[1] \o <<" ">> \o JoinSp(Tail(parts))

\* ------------------------------------------------- MainWindow.populate_job_ids
JOBID == <<"J", "O", "B", "I", "D">>

\* a loop body that wants more than MinFields fields
RowsOfLine_more_fields(rawline) ==
    Only({ IF line = <<>> \/ StartsWith(line, JOBID) THEN <<>>
           ELSE Only({ IF Len(parts) > MinFields /\ IsDigit(parts[1])
                       THEN << [job_id |-> parts[1], partition |-> parts[2],
                                name |-> parts[3], user |-> parts[4], state |-> parts[5],
                                time |-> parts[6], nodes |-> parts[7],
                                nodelist |-> JoinSp(SubSeq(parts, 8, Len(parts)))] >>
                       ELSE <<>>
                       : parts \in {SplitWS(line)} })
           : line \in {Strip(rawline)} })

\* the row the loop body adds for one line, as a sequence of zero or one rows
RowsOfLine(rawline) ==
    Only({ IF line = <<>> \/ StartsWith(line, JOBID) THEN <<>>
           ELSE Only({ IF Len(parts) >= MinFields /\ IsDigit(parts[1])
                       THEN << [job_id |-> parts[1], partition |-> parts[2],
                                name |-> parts[3], user |-> parts[4], state |-> parts[5],
                                time |-> parts[6], nodes |-> parts[7],
                                nodelist |-> JoinSp(SubSeq(parts, 8, Len(parts)))] >>
                       ELSE <<>>
                       : parts \in {SplitWS(line)} })
           : line \in {Strip(rawline)} })

RECURSIVE RowsOfLines(_)
RowsOfLines(lines) ==
    IF lines = <<>> THEN <<>> ELSE RowsOfLine(Head(lines)) \o RowsOfLines(Tail(lines))

\* the rows of the job table after populate_job_ids(squeue_output)
populate_job_ids(squeue_output) ==
    Only({ RowsOfLines(lines) : lines \in {SplitSep(Strip(squeue_output), "\n")} })

\* ------------------------------------------ SlurmCommands: results of a call
Return(v) == [kind |-> "return", exc |-> "", val |-> v]
Raise(exc, msg) == [kind |-> "raise", exc |-> exc, val |-> msg]

\* what subprocess.run hands back: a completed process or an exception
Completed(out, err, rc) ==
    [kind |-> "completed", out |-> out, err |-> err, rc |-> rc, exc |-> ""]
Failed(exc) == [kind |-> "exception", out |-> <<>>, err |-> <<>>, rc |-> 0, exc |-> exc]
NoResult == [kind |-> "none", out |-> <<>>, err |-> <<>>, rc |-> 0, exc |-> ""]

\* a run_command without the TimeoutExpired clause: the catch-all reports it
run_command_no_timeout_clause(command, sub) ==
    IF sub.kind = "completed"
    THEN Return([stdout |-> sub.out, stderr |-> sub.err, returncode |-> sub.rc])
    ELSE IF sub.exc = "FileNotFoundError"
         THEN Raise("SlurmError", <<"Command not found: ">> \o command[1])
    ELSE Raise("SlurmError", <<"Error running command: ", sub.exc>>)

\* a run_command without the FileNotFoundError clause: the catch-all reports it
run_command_no_not_found_clause(command, sub) ==
    IF sub.kind = "completed"
    THEN Return([stdout |-> sub.out, stderr |-> sub.err, returncode |-> sub.rc])
    ELSE IF sub.exc = "TimeoutExpired"
         THEN Raise("SlurmError", <<"Command timed out: ">> \o JoinSp(command))
    ELSE Raise("SlurmError", <<"Error running command: ", sub.exc>>)

\* SlurmCommands.run_command, given what subprocess.run did
run_command(command, sub) ==
    IF sub.kind = "completed"
    THEN Return([stdout |-> sub.out, stderr |-> sub.err, returncode |-> sub.rc])
    ELSE IF sub.exc = "TimeoutExpired"
         THEN Raise("SlurmError", <<"Command timed out: ">> \o JoinSp(command))
    ELSE IF sub.exc = "FileNotFoundError"
         THEN Raise("SlurmError", <<"Command not found: ">> \o command[1])
    ELSE Raise("SlurmError", <<"Error running command: ", sub.exc>>)

\* the argument vectors
squeue_cmd(user, job_id) ==
    << <<"squeue">> >> \o (IF Truthy(user) THEN << <<"-u">>, user >> ELSE <<>>)
                      \o (IF Truthy(job_id) THEN << <<"-j">>, job_id >> ELSE <<>>)
sinfo_cmd(partition) ==
    << <<"sinfo">> >> \o (IF Truthy(partition) THEN << <<"-p">>, partition >> ELSE <<>>)
scancel_cmd(job_id) == << <<"scancel">>, job_id >>
scancel_all_cmd(user) == << <<"scancel">>, <<"-u">>, user >>
sbatch_cmd(script_path) == << <<"sbatch">>, script_path >>
scontrol_show_job_cmd(job_id) == << <<"scontrol">>, <<"show">>, <<"job">>, job_id >>

\* the operations, given what subprocess.run did for their command
squeue(user, job_id, sub) ==
    LET r == run_command(squeue_cmd(user, job_id), sub)
    IN IF r.kind = "raise" THEN r
       ELSE IF r.val.returncode # 0
            THEN Raise("SlurmError", <<"squeue failed: ">> \o r.val.stderr)
            ELSE Return(r.val.stdout)

sinfo(partition, sub) ==
    LET r == run_command(sinfo_cmd(partition), sub)
    IN IF r.kind = "raise" THEN r
       ELSE IF r.val.returncode # 0
            THEN Raise("SlurmError", <<"sinfo failed: ">> \o r.val.stderr)
            ELSE Return(r.val.stdout)

\* an scancel that does not look at the exit status
scancel_unchecked(job_id, sub) ==
    LET r == run_command(scancel_cmd(job_id), sub)
    IN IF r.kind = "raise" THEN r
       ELSE Return(IF Truthy(r.val.stdout) THEN r.val.stdout
                   ELSE <<"Job ">> \o job_id \o <<" cancelled successfully">>)

scancel(job_id, sub) ==
    LET r == run_command(scancel_cmd(job_id), sub)
    IN IF r.kind = "raise" THEN r
       ELSE IF r.val.returncode # 0
            THEN Raise("SlurmError", <<"scancel failed: ">> \o r.val.stderr)
            ELSE Return(IF Truthy(r.val.stdout) THEN r.val.stdout
                        ELSE <<"Job ">> \o job_id \o <<" cancelled successfully">>)

\* an scancel_all that returns the standard output as it is, empty or not
scancel_all_raw_stdout(user, sub) ==
    LET r == run_command(scancel_all_cmd(user), sub)
    IN IF r.kind = "raise" THEN r
       ELSE IF r.val.returncode # 0
            THEN Raise("SlurmError", <<"scancel failed: ">> \o r.val.stderr)
            ELSE Return(r.val.stdout)

scancel_all(user, sub) ==
    LET r == run_command(scancel_all_cmd(user), sub)
    IN IF r.kind = "raise" THEN r
       ELSE IF r.val.returncode # 0
            THEN Raise("SlurmError", <<"scancel failed: ">> \o r.val.stderr)
            ELSE Return(IF Truthy(r.val.stdout) THEN r.val.stdout
                        ELSE <<"All jobs for user ">> \o user
                                 \o <<" cancelled successfully">>)

sbatch(script_path, sub) ==
    LET r == run_command(sbatch_cmd(script_path), sub)
    IN IF r.kind = "raise" THEN r
       ELSE IF r.val.returncode # 0
            THEN Raise("SlurmError", <<"sbatch failed: ">> \o r.val.stderr)
            ELSE Return(r.val.stdout)

scontrol_show_job(job_id, sub) ==
    LET r == run_command(scontrol_show_job_cmd(job_id), sub)
    IN IF r.kind = "raise" THEN r
       ELSE IF r.val.returncode # 0
            THEN Raise("SlurmError", <<"scontrol failed: ">> \o r.val.stderr)
            ELSE Return(r.val.stdout)

\* if len(parts) > 1: path = parts[1].split()[0]   (an empty split() is an IndexError)
PathAfter(line, marker, old) ==
    Only({ IF Len(parts) > 1
           THEN Only({ IF words = <<>>
                       THEN Raise("IndexError", <<"list index out of range">>)
                       ELSE Return(words[1])
                       : words \in {SplitWS(parts[2])} })
           ELSE Return(old)
           : parts \in {SplitSep(line, marker)} })

\* one pass of the loop body of get_job_output_files: the two paths after the line
ScanLine(rawline, stdout_path, stderr_path) ==
    Only({ Only({ IF o.kind = "raise" THEN o
                  ELSE Only({ IF e.kind = "raise" THEN e ELSE Return(<<o.val, e.val>>)
                              : e \in {IF Contains(line, "StdErr=")
                                       THEN PathAfter(line, "StdErr=", stderr_path)
                                       ELSE Return(stderr_path)} })
                  : o \in {IF Contains(line, "StdOut=")
                           THEN PathAfter(line, "StdOut=", stdout_path)
                           ELSE Return(stdout_path)} })
           : line \in {Strip(rawline)} })

RECURSIVE ScanLines(_, _)
\* the loop of get_job_output_files over the remaining lines; sofar is the
\* pair of paths (or the exception) after the lines before them
ScanLines(lines, sofar) ==
    IF lines = <<>> \/ sofar.kind = "raise" THEN sofar
    ELSE Only({ ScanLines(Tail(lines), next)
                : next \in {ScanLine(Head(lines), sofar.val[1], sofar.val[2])} })

get_job_output_files(job_id, sub) ==
    Only({ IF output.kind = "raise" THEN output
           ELSE ScanLines(SplitSep(output.val, "\n"), Return(<<None, None>>))
           : output \in {scontrol_show_job(job_id, sub)} })

\* what open(file_path).read() does: the content, or an exception
FileRead(data) == [kind |-> "read", data |-> data, exc |-> ""]
FileError(exc) == [kind |-> "exception", data |-> <<>>, exc |-> exc]

read_job_output(job_id, output_type, sub, f) ==
    Only({ IF paths.kind = "raise" THEN paths
           ELSE Only({ IF ~Truthy(file_path)
                       THEN Raise("SlurmError",
                                  <<"No ", output_type, " file found for job ">> \o job_id)
                       ELSE IF f.kind = "read"
                            THEN Return(IF Truthy(f.data) THEN f.data
                                        ELSE <<"(Empty ", output_type, " file)">>)
                       ELSE IF f.exc = "FileNotFoundError"
                            THEN Raise("SlurmError",
                                       <<output_type, " file not found: ">> \o file_path)
                       ELSE IF f.exc = "PermissionError"
                            THEN Raise("SlurmError",
                                       <<"Permission denied reading ", output_type,
                                         " file: ">> \o file_path)
                       ELSE Raise("SlurmError",
                                  <<"Error reading ", output_type, " file: ", f.exc>>)
                       : file_path \in {IF output_type = "stdout" THEN paths.val[1]
                                        ELSE paths.val[2]} })
           : paths \in {get_job_output_files(job_id, sub)} })

\* ------------------------------------------------------------------ state
VARIABLES
    worker,           \* MainWindow.worker: the latest SlurmWorker and where its thread is
    current_command,  \* MainWindow.current_command
    sigq,             \* finished/error signals queued to the interactive thread
    requests,         \* every run_slurm_command call so far, in call order
    callbacks,        \* every on_command_success/on_command_error handled so far
    busy_notices,     \* "A command is already running..." lines in the console
    job_table,        \* rows of MainWindow.job_table
    auto_refresh,     \* refresh_timer is active
    user_input,       \* text of the user field
    gui,              \* the interactive thread: idle, or inside on_tail_logs
    exec              \* per thread: its subprocess.run call and the child process

\* a LogTailDialog and the files it follows
VARIABLES
    file,             \* per stream: the file at the stream's path
    path,             \* stdout_path, stderr_path
    pos,              \* stdout_pos, stderr_pos
    text,             \* stdout_text, stderr_text: the chunks appended so far
    placeholder,      \* the placeholder text of stdout_text, stderr_text
    failed,           \* per stream: some poll of the session hit "except Exception"
    nshown,           \* per stream: error placeholders set in the session, up to MaxShown
    in_step,          \* per stream: the file has only grown since the offset was its size
    polled,           \* the latest step of the dialog or its files was update_logs
    timer_active      \* LogTailDialog.timer is running

\* the input of populate_job_ids
VARIABLES
    listing,          \* the squeue listing handed to populate_job_ids
    parsed            \* populate_job_ids has run on it

\* the input and the result of get_job_output_files
VARIABLES
    detail,           \* the job detail text scontrol printed
    extracted         \* what get_job_output_files made of it

dvars == <<worker, current_command, sigq, requests, callbacks, busy_notices,
           job_table, auto_refresh, user_input, gui, exec>>

tvars == <<file, path, pos, text, placeholder, failed, nshown, in_step, polled,
           timer_active>>
pvars == <<listing, parsed, detail, extracted>>
vars == <<dvars, tvars, pvars>>

Threads == {"gui", "worker"}
Streams == {"stdout", "stderr"}

NoArgs == [job_id |-> None, user |-> None, path |-> None, output_type |-> ""]
NoWorker == [id |-> 0, pc |-> "none", name |-> None, func |-> "", args |-> NoArgs]
\* spawns counts the child processes subprocess.run has launched for the call
NoCall == [st |-> "none", command |-> <<>>, alive |-> FALSE, elapsed |-> 0,
           spawns |-> 0, sub |-> NoResult]

\* ------------------------------------------------------------ environment
USER == <<"alice">>
SCRIPT == <<"/s.sh">>

SampleQueue ==
    JOBID \o <<" ", "P", " ", "N", " ", "U", " ", "S", " ", "T", " ", "N", " ", "L", "\n",
               "7", " ", "p", " ", "n", " ", "u", " ", "R", " ", "0", " ", "1", " ", "x">>
SampleDetail == <<"StdOut=", "/", "o", "\n", "StdErr=", "/", "e">>
SampleDetailNoPaths == <<"J", "=", "7">>
SampleDetailEmpty == <<"StdOut=", "\n">>

\* what a tool can print on standard output
StdoutSamples(tool) ==
    IF tool = <<"squeue">> THEN {<<>>, SampleQueue}
    ELSE IF tool = <<"scontrol">>
         THEN {SampleDetail, SampleDetailNoPaths, SampleDetailEmpty}
    ELSE {<<>>, <<"x">>}

\* how a child process can end by itself
ExitOutcomes(tool) ==
    {Completed(o, e, rc) : o \in StdoutSamples(tool), e \in {<<>>, <<"e">>}, rc \in {0, 1}}

\* the same, without the combinations that tell nothing new about the dispatch
BriefOutcomes(tool) ==
    {Completed(o, <<>>, 0) : o \in StdoutSamples(tool)} \cup {Completed(<<>>, <<"e">>, 1)}

\* what open(file_path).read() can do
FileOutcomes ==
    {FileRead(<<>>), FileRead(<<"x">>), FileError("FileNotFoundError"),
     FileError("PermissionError"), FileError("OSError")}

\* ------------------------------------------------------ subprocess.run steps
\* subprocess.run begins: the child is spawned, or the spawn fails
Spawn(command, how) ==
    IF how = "spawned"
    THEN [st |-> "wait", command |-> command, alive |-> TRUE, elapsed |-> 0,
          spawns |-> 1, sub |-> NoResult]
    ELSE [st |-> "ret", command |-> command, alive |-> FALSE, elapsed |-> 0,
          spawns |-> 1, sub |-> Failed(how)]

SpawnOutcomes == {"spawned", "FileNotFoundError", "OSError"}

\* the child exits within the timeout and run() returns its output
ChildExit(c, outcome) == [c EXCEPT !.st = "ret", !.alive = FALSE, !.sub = outcome]

\* a run() without a timeout: the call keeps waiting for its child
TimeoutExpiry_waits(c) == c

\* timeout=30 expires: run() kills the child, waits for it, raises TimeoutExpired
TimeoutExpiry(c) ==
    [c EXCEPT !.st = "ret", !.alive = FALSE, !.sub = Failed("TimeoutExpired")]

\* the child of thread t exits; every says which of its outcomes are told apart
ProcExit(t, every) ==
    /\ exec[t].st = "wait"
    /\ exec[t].elapsed < Timeout
    /\ \E outcome \in (IF every THEN ExitOutcomes(exec[t].command[1])
                        ELSE BriefOutcomes(exec[t].command[1])) :
          exec' = [exec EXCEPT ![t] = ChildExit(exec[t], outcome)]
    /\ UNCHANGED <<worker, current_command, sigq, requests, callbacks, busy_notices,
                   job_table, auto_refresh, user_input, gui>>

ProcTimeout(t) ==
    /\ exec[t].st = "wait"
    /\ exec[t].elapsed >= Timeout
    /\ exec' = [exec EXCEPT ![t] = TimeoutExpiry(exec[t])]
    /\ UNCHANGED <<worker, current_command, sigq, requests, callbacks, busy_notices,
                   job_table, auto_refresh, user_input, gui>>

Min(a, b) == IF a < b THEN a ELSE b

\* d time units pass for every call that is waiting for its child
Elapse(d) ==
    /\ \E t \in Threads : exec[t].st = "wait" /\ exec[t].elapsed < Timeout
    /\ exec' = [t \in Threads |->
                  IF exec[t].st = "wait"
                  THEN [exec[t] EXCEPT !.elapsed = Min(exec[t].elapsed + d, Timeout)]
                  ELSE exec[t]]
    /\ UNCHANGED <<worker, current_command, sigq, requests, callbacks, busy_notices,
                   job_table, auto_refresh, user_input, gui>>

\* --------------------------------------------------------------- SlurmWorker
\* the command a command function runs
CmdOf(func, args) ==
    CASE func = "squeue" -> squeue_cmd(args.user, None)
      [] func = "sinfo" -> sinfo_cmd(None)
      [] func = "scancel" -> scancel_cmd(args.job_id)
      [] func = "scancel_all" -> scancel_all_cmd(args.user)
      [] func = "sbatch" -> sbatch_cmd(args.path)
      [] func = "scontrol_show_job" -> scontrol_show_job_cmd(args.job_id)
      [] func = "read_job_output" -> scontrol_show_job_cmd(args.job_id)

\* self.command_func(*self.args, **self.kwargs)
CallFunc(func, args, sub, f) ==
    CASE func = "squeue" -> squeue(args.user, None, sub)
      [] func = "sinfo" -> sinfo(None, sub)
      [] func = "scancel" -> scancel(args.job_id, sub)
      [] func = "scancel_all" -> scancel_all(args.user, sub)
      [] func = "sbatch" -> sbatch(args.path, sub)
      [] func = "scontrol_show_job" -> scontrol_show_job(args.job_id, sub)
      [] func = "read_job_output" -> read_job_output(args.job_id, args.output_type, sub, f)

\* a run() that handles SlurmError alone: any other exception ends the thread unreported
SlurmWorker_run_slurm_error_only(w, result) ==
    IF result.kind = "return"
    THEN << [rid |-> w.id, name |-> w.name, sig |-> "finished", text |-> result.val] >>
    ELSE IF result.exc = "SlurmError"
         THEN << [rid |-> w.id, name |-> w.name, sig |-> "error", text |-> result.val] >>
         ELSE <<>>

\* SlurmWorker.run: the signals it emits for what the command function did
SlurmWorker_run(w, result) ==
    IF result.kind = "return"
    THEN << [rid |-> w.id, name |-> w.name, sig |-> "finished", text |-> result.val] >>
    ELSE IF result.exc = "SlurmError"
         THEN << [rid |-> w.id, name |-> w.name, sig |-> "error", text |-> result.val] >>
         ELSE << [rid |-> w.id, name |-> w.name, sig |-> "error",
                  text |-> <<"Unexpected error: ">> \o result.val] >>

\* QThread.isRunning() of self.worker, None included
IsRunning(w) == w.pc \in {"start", "call", "emitted"}

\* the thread starts run(): the command function begins its subprocess.run
WorkerRun ==
    /\ worker.pc = "start"
    /\ \E how \in SpawnOutcomes :
          exec' = [exec EXCEPT !["worker"] = Spawn(CmdOf(worker.func, worker.args), how)]
    /\ worker' = [worker EXCEPT !.pc = "call"]
    /\ UNCHANGED <<current_command, sigq, requests, callbacks, busy_notices,
                   job_table, auto_refresh, user_input, gui>>

\* the command function ends and run() emits finished or error
WorkerEmit ==
    /\ worker.pc = "call"
    /\ exec["worker"].st = "ret"
    /\ \E f \in (IF worker.func = "read_job_output" THEN FileOutcomes
                  ELSE {FileRead(<<>>)}) :
          sigq' = sigq \o SlurmWorker_run(worker,
                              CallFunc(worker.func, worker.args, exec["worker"].sub, f))
    /\ worker' = [worker EXCEPT !.pc = "emitted"]
    /\ exec' = [exec EXCEPT !["worker"] = [NoCall EXCEPT !.alive = exec["worker"].alive]]
    /\ UNCHANGED <<current_command, requests, callbacks, busy_notices,
                   job_table, auto_refresh, user_input, gui>>

\* run() has returned: the thread ends and isRunning() turns false
WorkerFinish ==
    /\ worker.pc = "emitted"
    /\ worker' = [worker EXCEPT !.pc = "done"]
    /\ UNCHANGED <<current_command, sigq, requests, callbacks, busy_notices,
                   job_table, auto_refresh, user_input, gui, exec>>

\* ---------------------------------------------------------------- MainWindow
Request(status, src) == [status |-> status, src |-> src]

\* a run_slurm_command that records the command name before it looks at the worker
run_slurm_command_name_first(command_name, command_func, args, src) ==
    /\ current_command' = command_name
    /\ IF worker.pc \in {"start", "call", "emitted"}
       THEN /\ busy_notices' = busy_notices + 1
            /\ requests' = Append(requests, Request("dropped", src))
            /\ UNCHANGED worker
       ELSE /\ worker' = [id |-> Len(requests) + 1, pc |-> "start", name |-> command_name,
                          func |-> command_func, args |-> args]
            /\ requests' = Append(requests, Request("accepted", src))
            /\ UNCHANGED busy_notices

\* run_slurm_command; src tells who called (a user action, the timer, a follow-up)
run_slurm_command(command_name, command_func, args, src) ==
    IF IsRunning(worker)
    THEN /\ busy_notices' = busy_notices + 1
         /\ requests' = Append(requests, Request("dropped", src))
         /\ UNCHANGED <<worker, current_command>>
    ELSE /\ current_command' = command_name
         /\ worker' = [id |-> Len(requests) + 1, pc |-> "start", name |-> command_name,
                       func |-> command_func, args |-> args]
         /\ requests' = Append(requests, Request("accepted", src))
         /\ UNCHANGED busy_notices

on_squeue(src) ==
    LET user == IF Truthy(Strip(user_input)) THEN Strip(user_input) ELSE None
        cmd_name == IF Truthy(user) THEN <<"squeue", " ", "-u", " ">> \o user
                    ELSE <<"squeue">>
    IN run_slurm_command(cmd_name, "squeue", [NoArgs EXCEPT !.user = user], src)

on_command_success(s) ==
    /\ callbacks' = Append(callbacks, [rid |-> s.rid, kind |-> "success"])
    /\ IF Truthy(current_command) /\ StartsWith(current_command, <<"squeue">>)
       THEN /\ job_table' = populate_job_ids(s.text)
            /\ UNCHANGED <<worker, current_command, requests, busy_notices>>
       ELSE IF Truthy(current_command) /\ StartsWith(current_command, <<"scancel">>)
            THEN on_squeue("followup") /\ UNCHANGED job_table
       ELSE IF Truthy(current_command) /\ StartsWith(current_command, <<"sbatch">>)
            THEN on_squeue("followup") /\ UNCHANGED job_table
       ELSE UNCHANGED <<worker, current_command, requests, busy_notices, job_table>>

on_command_error(s) ==
    /\ callbacks' = Append(callbacks, [rid |-> s.rid, kind |-> "error"])
    /\ UNCHANGED <<worker, current_command, requests, busy_notices, job_table>>

\* the interactive thread handles the next queued signal
DeliverSignal ==
    /\ gui.pc = "idle"
    /\ sigq # <<>>
    /\ sigq' = Tail(sigq)
    /\ IF Head(sigq).sig = "finished" THEN on_command_success(Head(sigq))
       ELSE on_command_error(Head(sigq))
    /\ UNCHANGED <<auto_refresh, user_input, gui, exec>>

\* calls made by user actions and timer ticks so far
AskedCalls == Len(SelectSeq(requests, LAMBDA r : r.src # "followup"))
CanAsk == gui.pc = "idle" /\ AskedCalls < MaxRequests

GuiRest == <<sigq, callbacks, job_table, auto_refresh, user_input, gui, exec>>

\* "Refresh Queue" clicked
SqueueClicked == CanAsk /\ on_squeue("user") /\ UNCHANGED GuiRest

\* refresh_timer.timeout
RefreshTick == CanAsk /\ auto_refresh /\ on_squeue("timer") /\ UNCHANGED GuiRest

on_auto_refresh_toggle ==
    /\ auto_refresh' = ~auto_refresh
    /\ IF auto_refresh'
       THEN CanAsk /\ on_squeue("user")
       ELSE gui.pc = "idle"
            /\ UNCHANGED <<worker, current_command, requests, busy_notices>>
    /\ UNCHANGED <<sigq, callbacks, job_table, user_input, gui, exec>>

\* the job id of a selected row
SelectedJobs == {job_table[i].job_id : i \in 1..Len(job_table)}

on_scancel ==
    /\ CanAsk
    /\ \E job_id \in SelectedJobs :
          run_slurm_command(<<"scancel", " ">> \o job_id, "scancel",
                            [NoArgs EXCEPT !.job_id = job_id], "user")
    /\ UNCHANGED GuiRest

on_job_info ==
    /\ CanAsk
    /\ \E job_id \in SelectedJobs :
          run_slurm_command(<<"scontrol", " ", "show", " ", "job", " ">> \o job_id,
                            "scontrol_show_job", [NoArgs EXCEPT !.job_id = job_id], "user")
    /\ UNCHANGED GuiRest

on_scancel_all ==
    /\ CanAsk
    /\ Truthy(Strip(user_input))
    /\ run_slurm_command(<<"scancel", " ", "-u", " ">> \o Strip(user_input), "scancel_all",
                         [NoArgs EXCEPT !.user = Strip(user_input)], "user")
    /\ UNCHANGED GuiRest

on_view_stdout ==
    /\ CanAsk
    /\ \E job_id \in SelectedJobs :
          run_slurm_command(<<"cat stdout for job ">> \o job_id, "read_job_output",
                            [NoArgs EXCEPT !.job_id = job_id, !.output_type = "stdout"],
                            "user")
    /\ UNCHANGED GuiRest

on_view_stderr ==
    /\ CanAsk
    /\ \E job_id \in SelectedJobs :
          run_slurm_command(<<"cat stderr for job ">> \o job_id, "read_job_output",
                            [NoArgs EXCEPT !.job_id = job_id, !.output_type = "stderr"],
                            "user")
    /\ UNCHANGED GuiRest

on_submit_job ==
    /\ CanAsk
    /\ run_slurm_command(<<"sbatch", " ">> \o SCRIPT, "sbatch",
                         [NoArgs EXCEPT !.path = SCRIPT], "user")
    /\ UNCHANGED GuiRest

on_cluster_info ==
    /\ CanAsk
    /\ run_slurm_command(<<"sinfo">>, "sinfo", NoArgs, "user")
    /\ UNCHANGED GuiRest

\* on_tail_logs up to the start of its scontrol call, made on the interactive thread
on_tail_logs ==
    /\ gui.pc = "idle"
    /\ \E job_id \in SelectedJobs, how \in SpawnOutcomes :
          /\ gui' = [pc |-> "tail", job_id |-> job_id]
          /\ exec' = [exec EXCEPT !["gui"] = Spawn(scontrol_show_job_cmd(job_id), how)]
    /\ UNCHANGED <<worker, current_command, sigq, requests, callbacks, busy_notices,
                   job_table, auto_refresh, user_input>>

\* on_tail_logs from the return of get_job_output_files: the dialog, or a warning
TailLogsReturn ==
    /\ gui.pc = "tail"
    /\ exec["gui"].st = "ret"
    /\ gui' = [pc |-> "idle", job_id |-> None]
    /\ exec' = [exec EXCEPT !["gui"] = [NoCall EXCEPT !.alive = exec["gui"].alive]]
    /\ UNCHANGED <<worker, current_command, sigq, requests, callbacks, busy_notices,
                   job_table, auto_refresh, user_input>>

\* ------------------------------------------------------------- LogTailDialog
NoFile == [exists |-> FALSE, readable |-> TRUE, data |-> <<>>]
\* the k-th byte the job writes to an output file: lines of one letter
JobByte(k) == IF k % 2 = 1 THEN "a" ELSE "\n"
Waiting(s) == IF s = "stdout" THEN "Waiting for output..." ELSE "Waiting for errors..."
ReadError == "Error reading file: [Errno 13] Permission denied"
Unpolled(s) == [pos |-> pos[s], text |-> text[s], placeholder |-> placeholder[s],
                failed |-> FALSE, shown |-> FALSE]

\* LogTailDialog.__init__ with the paths get_job_output_files returned
LogTailDialog_init ==
    /\ ~timer_active
    /\ \E shown \in StdoutSamples(<<"scontrol">>) :
          LET paths == get_job_output_files(<<"7">>, Completed(shown, <<>>, 0))
          IN /\ paths.kind = "return"
             /\ path' = [s \in Streams |-> IF s = "stdout" THEN paths.val[1]
                                          ELSE paths.val[2]]
    /\ pos' = [s \in Streams |-> 0]
    /\ text' = [s \in Streams |-> <<>>]
    /\ placeholder' = [s \in Streams |-> Waiting(s)]
    /\ failed' = [s \in Streams |-> FALSE]
    /\ nshown' = [s \in Streams |-> 0]
    /\ in_step' = [s \in Streams |-> TRUE]
    /\ polled' = FALSE
    /\ timer_active' = TRUE
    /\ UNCHANGED file

\* f.seek(p); f.read() on a file that holds data
ReadFrom(data, p) == IF p >= Len(data) THEN <<>> ELSE SubSeq(data, p + 1, Len(data))

\* an update_logs that starts over when the file has become shorter than the offset
PollStream_rewinds(s) ==
    LET f == file[s]
        p == IF pos[s] > Len(f.data) THEN 0 ELSE pos[s]
    IN IF ~Truthy(path[s]) \/ ~f.exists THEN Unpolled(s)
       ELSE IF ~f.readable
            THEN [Unpolled(s) EXCEPT !.failed = TRUE, !.shown = (pos[s] = 0),
                                     !.placeholder = IF pos[s] = 0 THEN ReadError ELSE @]
       ELSE [Unpolled(s) EXCEPT !.pos = Len(f.data),
                                !.text = IF Truthy(ReadFrom(f.data, p))
                                         THEN Append(@, RStrip(ReadFrom(f.data, p)))
                                         ELSE @]

\* an update_logs without the FileNotFoundError clause: the catch-all handles it
PollStream_missing_is_error(s) ==
    IF Truthy(path[s]) /\ ~file[s].exists
    THEN [Unpolled(s) EXCEPT !.failed = TRUE, !.shown = (pos[s] = 0),
                             !.placeholder = IF pos[s] = 0 THEN ReadError ELSE @]
    ELSE IF ~Truthy(path[s]) THEN Unpolled(s)
    ELSE IF ~file[s].readable
         THEN [Unpolled(s) EXCEPT !.failed = TRUE, !.shown = (pos[s] = 0),
                                  !.placeholder = IF pos[s] = 0 THEN ReadError ELSE @]
    ELSE IF Truthy(ReadFrom(file[s].data, pos[s]))
         THEN [Unpolled(s) EXCEPT !.text = Append(@, RStrip(ReadFrom(file[s].data, pos[s]))),
                                  !.pos = Len(file[s].data)]
    ELSE Unpolled(s)

\* one stream's half of update_logs: what it leaves in the stream's fields
PollStream(s) ==
    LET f == file[s]
        new_content == ReadFrom(f.data, pos[s])
    IN IF ~Truthy(path[s]) THEN Unpolled(s)
       ELSE IF ~f.exists THEN Unpolled(s)
       ELSE IF ~f.readable
            THEN [Unpolled(s) EXCEPT !.failed = TRUE, !.shown = (pos[s] = 0),
                                     !.placeholder = IF pos[s] = 0 THEN ReadError ELSE @]
       ELSE IF Truthy(new_content)
            THEN [Unpolled(s) EXCEPT !.text = Append(@, RStrip(new_content)),
                                     !.pos = Len(f.data)]
       ELSE Unpolled(s)

\* LogTailDialog.update_logs, on a tick of the dialog's timer
update_logs ==
    /\ timer_active
    /\ pos' = [s \in Streams |-> PollStream(s).pos]
    /\ text' = [s \in Streams |-> PollStream(s).text]
    /\ placeholder' = [s \in Streams |-> PollStream(s).placeholder]
    /\ failed' = [s \in Streams |-> failed[s] \/ PollStream(s).failed]
    /\ nshown' = [s \in Streams |-> IF PollStream(s).shown
                                   THEN Min(nshown[s] + 1, MaxShown) ELSE nshown[s]]
    /\ in_step' = [s \in Streams |-> /\ file[s].exists
                                    /\ file[s].readable
                                    /\ PollStream(s).pos = Len(file[s].data)]
    /\ polled' = TRUE
    /\ UNCHANGED <<file, path, timer_active>>

\* LogTailDialog.closeEvent
closeEvent ==
    /\ timer_active
    /\ timer_active' = FALSE
    /\ polled' = FALSE
    /\ UNCHANGED <<file, path, pos, text, placeholder, failed, nshown, in_step>>

TailFields == <<path, pos, text, placeholder, failed, nshown, timer_active>>

\* the job writes one more byte to an output file
JobWrites ==
    \E s \in Streams :
        /\ file[s].exists
        /\ Len(file[s].data) < MaxFileLen
        /\ file' = [file EXCEPT ![s].data = Append(@, JobByte(Len(@) + 1))]
        /\ polled' = FALSE
        /\ UNCHANGED <<TailFields, in_step>>

\* the job starts and creates an output file
FileCreated ==
    \E s \in Streams :
        /\ ~file[s].exists
        /\ file' = [file EXCEPT ![s] = [NoFile EXCEPT !.exists = TRUE]]
        /\ in_step' = [in_step EXCEPT ![s] = FALSE]
        /\ polled' = FALSE
        /\ UNCHANGED TailFields

\* an output file is removed
FileRemoved ==
    \E s \in Streams :
        /\ file[s].exists
        /\ file' = [file EXCEPT ![s] = NoFile]
        /\ in_step' = [in_step EXCEPT ![s] = FALSE]
        /\ polled' = FALSE
        /\ UNCHANGED TailFields

\* an output file is truncated, as when the job is restarted and reopens it
FileTruncated ==
    \E s \in Streams :
        /\ file[s].exists
        /\ file[s].data # <<>>
        /\ file' = [file EXCEPT ![s].data = <<>>]
        /\ in_step' = [in_step EXCEPT ![s] = FALSE]
        /\ polled' = FALSE
        /\ UNCHANGED TailFields

\* the permissions of an output file change
Chmod ==
    \E s \in Streams :
        /\ file[s].exists
        /\ file' = [file EXCEPT ![s].readable = ~@]
        /\ polled' = FALSE
        /\ UNCHANGED <<TailFields, in_step>>

\* ------------------------------------------------------------ specification
DispatchInit ==
    /\ worker = NoWorker
    /\ current_command = None
    /\ sigq = <<>>
    /\ requests = <<>>
    /\ callbacks = <<>>
    /\ busy_notices = 0
    /\ job_table = <<>>
    /\ auto_refresh = FALSE
    /\ user_input = USER
    /\ gui = [pc |-> "idle", job_id |-> None]
    /\ exec = [t \in Threads |-> NoCall]

WorkerNext ==
    \/ WorkerRun
    \/ WorkerEmit
    \/ WorkerFinish

\* no tail dialog is open
NoTail ==
    /\ file = [s \in Streams |-> NoFile]
    /\ path = [s \in Streams |-> None]
    /\ pos = [s \in Streams |-> 0]
    /\ text = [s \in Streams |-> <<>>]
    /\ placeholder = [s \in Streams |-> Waiting(s)]
    /\ failed = [s \in Streams |-> FALSE]
    /\ nshown = [s \in Streams |-> 0]
    /\ in_step = [s \in Streams |-> TRUE]
    /\ polled = FALSE
    /\ timer_active = FALSE

\* no job detail text is being searched
NotExtracted == [kind |-> "none", exc |-> "", val |-> <<>>]
NoDetail ==
    /\ detail = <<>>
    /\ extracted = NotExtracted

\* no listing is being parsed, and no job detail
NoListing ==
    /\ listing = [padded |-> FALSE, lines |-> <<>>]
    /\ parsed = FALSE
    /\ NoDetail

\* the application as a whole: the main window, its worker and the child processes
Init == DispatchInit /\ NoTail /\ NoListing
Next ==
    \/ SqueueClicked /\ UNCHANGED <<tvars, pvars>>
    \/ RefreshTick /\ UNCHANGED <<tvars, pvars>>
    \/ on_auto_refresh_toggle /\ UNCHANGED <<tvars, pvars>>
    \/ on_scancel /\ UNCHANGED <<tvars, pvars>>
    \/ on_scancel_all /\ UNCHANGED <<tvars, pvars>>
    \/ on_submit_job /\ UNCHANGED <<tvars, pvars>>
    \/ on_job_info /\ UNCHANGED <<tvars, pvars>>
    \/ on_view_stdout /\ UNCHANGED <<tvars, pvars>>
    \/ on_view_stderr /\ UNCHANGED <<tvars, pvars>>
    \/ on_cluster_info /\ UNCHANGED <<tvars, pvars>>
    \/ on_tail_logs /\ UNCHANGED <<tvars, pvars>>
    \/ TailLogsReturn /\ UNCHANGED <<tvars, pvars>>
    \/ DeliverSignal /\ UNCHANGED <<tvars, pvars>>
    \/ WorkerRun /\ UNCHANGED <<tvars, pvars>>
    \/ WorkerEmit /\ UNCHANGED <<tvars, pvars>>
    \/ WorkerFinish /\ UNCHANGED <<tvars, pvars>>
    \/ (\E t \in Threads : ProcExit(t, FALSE)) /\ UNCHANGED <<tvars, pvars>>
    \/ (\E t \in Threads : ProcTimeout(t)) /\ UNCHANGED <<tvars, pvars>>
    \/ Elapse(Timeout) /\ UNCHANGED <<tvars, pvars>>
Spec == Init /\ [][Next]_vars

\* the worker thread takes the next step of run()
WorkerAdvances == WorkerNext /\ UNCHANGED <<tvars, pvars>>

WorkerChildEnds ==
    (ProcExit("worker", FALSE) \/ ProcTimeout("worker")) /\ UNCHANGED <<tvars, pvars>>

\* the worker thread gets scheduled, and a child process exits or times out
FairSpec == Spec /\ WF_vars(WorkerAdvances) /\ WF_vars(WorkerChildEnds)


\* a tail dialog and the job's output files
TailInit == DispatchInit /\ NoTail /\ NoListing
TailNext ==
    \/ LogTailDialog_init /\ UNCHANGED <<dvars, pvars>>
    \/ update_logs /\ UNCHANGED <<dvars, pvars>>
    \/ closeEvent /\ UNCHANGED <<dvars, pvars>>
    \/ JobWrites /\ UNCHANGED <<dvars, pvars>>
    \/ FileCreated /\ UNCHANGED <<dvars, pvars>>
    \/ FileRemoved /\ UNCHANGED <<dvars, pvars>>
    \/ FileTruncated /\ UNCHANGED <<dvars, pvars>>
    \/ Chmod /\ UNCHANGED <<dvars, pvars>>
TailSpec == TailInit /\ [][TailNext]_vars


\* ------------------------------------------------- one command, step by step
\* the main window after a first "Refresh Queue" has listed job 7
QueueListed ==
    /\ worker = [id |-> 1, pc |-> "done", name |-> <<"squeue", " ", "-u", " ">> \o USER,
                 func |-> "squeue", args |-> [NoArgs EXCEPT !.user = USER]]
    /\ current_command = <<"squeue", " ", "-u", " ">> \o USER
    /\ sigq = <<>>
    /\ requests = << Request("accepted", "user") >>
    /\ callbacks = << [rid |-> 1, kind |-> "success"] >>
    /\ busy_notices = 0
    /\ job_table = populate_job_ids(SampleQueue)
    /\ auto_refresh = FALSE
    /\ user_input = USER
    /\ gui = [pc |-> "idle", job_id |-> None]
    /\ exec = [t \in Threads |-> NoCall]

ExecInit == QueueListed /\ NoTail /\ NoListing
ExecNext ==
    \/ SqueueClicked /\ UNCHANGED <<tvars, pvars>>
    \/ on_scancel /\ UNCHANGED <<tvars, pvars>>
    \/ on_scancel_all /\ UNCHANGED <<tvars, pvars>>
    \/ on_submit_job /\ UNCHANGED <<tvars, pvars>>
    \/ on_job_info /\ UNCHANGED <<tvars, pvars>>
    \/ on_view_stdout /\ UNCHANGED <<tvars, pvars>>
    \/ on_view_stderr /\ UNCHANGED <<tvars, pvars>>
    \/ on_cluster_info /\ UNCHANGED <<tvars, pvars>>
    \/ DeliverSignal /\ UNCHANGED <<tvars, pvars>>
    \/ WorkerRun /\ UNCHANGED <<tvars, pvars>>
    \/ WorkerEmit /\ UNCHANGED <<tvars, pvars>>
    \/ WorkerFinish /\ UNCHANGED <<tvars, pvars>>
    \/ ProcExit("worker", TRUE) /\ UNCHANGED <<tvars, pvars>>
    \/ ProcTimeout("worker") /\ UNCHANGED <<tvars, pvars>>
    \/ Elapse(1) /\ UNCHANGED <<tvars, pvars>>
ExecSpec == ExecInit /\ [][ExecNext]_vars

\* ------------------------------------------------------- parsing a listing
\* the first token of a generated line
FirstKinds == {"digits", "letters", "mixed", "header"}
FirstToken(kind) ==
    CASE kind = "digits" -> <<"4", "2">>
      [] kind = "letters" -> <<"x">>
      [] kind = "mixed" -> <<"4", "x">>
      [] kind = "header" -> JOBID
\* the k-th token of a generated line
Letters == <<"a", "b", "c", "d", "e", "f", "g", "h", "i", "j", "k">>
TokensOf(l) == [k \in 1..l.ntok |-> IF k = 1 THEN FirstToken(l.first)
                                    ELSE <<Letters[((k - 2) % Len(Letters)) + 1]>>]
GenLines == [ntok : 1..MaxTokens, first : FirstKinds] \cup {[ntok |-> 0, first |-> "digits"]}
GenListings == UNION {[1..n -> GenLines] : n \in 0..MaxLines}

RECURSIVE JoinWith(_, _)
JoinWith(parts, sep) ==
    IF parts = <<>> THEN <<>>
    ELSE IF Len(parts) = 1 THEN parts[1]
    ELSE parts[1] \o sep \o JoinWith(Tail(parts), sep)

\* the text of a generated listing: columns one space apart, or padded the way
\* squeue aligns them
Render(l) ==
    LET gap == IF l.padded THEN <<" ", "\t", " ">> ELSE <<" ">>
        edge == IF l.padded THEN <<" ">> ELSE <<>>
        LineText(k) == edge \o JoinWith(TokensOf(l.lines[k]), gap) \o edge
    IN JoinWith([k \in 1..Len(l.lines) |-> LineText(k)], <<"\n">>)

ParseInit ==
    /\ DispatchInit
    /\ NoTail
    /\ listing \in [padded : BOOLEAN, lines : GenListings]
    /\ parsed = FALSE
    /\ NoDetail

\* on_command_success hands the squeue output to populate_job_ids
PopulateJobTable ==
    /\ ~parsed
    /\ job_table' = populate_job_ids(Render(listing))
    /\ parsed' = TRUE
    /\ UNCHANGED <<worker, current_command, sigq, requests, callbacks, busy_notices,
                   auto_refresh, user_input, gui, exec, listing, detail, extracted,
                   tvars>>

ParseNext == PopulateJobTable
ParseSpec == ParseInit /\ [][ParseNext]_vars


\* ------------------------------------------------ searching a job detail text
\* the symbols of a generated job detail text
DetailSymbols == {"StdOut=", "StdErr=", "a", "b", " ", "\n"}
GenDetails == UNION {[1..n -> DetailSymbols] : n \in 0..MaxDetailLen}

PathInit ==
    /\ DispatchInit
    /\ NoTail
    /\ listing = [padded |-> FALSE, lines |-> <<>>]
    /\ parsed = FALSE
    /\ detail \in GenDetails
    /\ extracted = NotExtracted

\* get_job_output_files on the text of an scontrol that exited with status 0
ExtractPaths ==
    /\ extracted = NotExtracted
    /\ extracted' = get_job_output_files(<<"7">>, Completed(detail, <<>>, 0))
    /\ UNCHANGED <<dvars, tvars, listing, parsed, detail>>

PathNext == ExtractPaths
PathSpec == PathInit /\ [][PathNext]_vars

\* ------------------------------------------------------------------ claims
Rids == 1..Len(requests)
CountSeq(q, Test(_)) == Len(SelectSeq(q, Test))
CallbacksOf(rid) == CountSeq(callbacks, LAMBDA c : c.rid = rid)
QueuedOf(rid) == CountSeq(sigq, LAMBDA g : g.rid = rid)
InFlight == {t \in Threads : exec[t].alive}

\* C1: in every reachable state at most one external command (squeue, scancel,
\* sbatch, scontrol, sinfo) is in flight, whatever the user and the timer do.
OneCommandInFlight == Cardinality(InFlight) <= 1

\* a run_slurm_command call is made in this step
CallMade == Len(requests') = Len(requests) + 1

\* C2: a run_slurm_command call made while the worker is running is dropped: it
\* starts no worker and no process then or later, adds one "already running"
\* notice, raises no error callback, and leaves the command name, the worker,
\* its process and its pending result as they were.
BusyCallDropped ==
    /\ [](/\ worker.id # 0 => requests[worker.id].status = "accepted"
          /\ \A i \in 1..Len(sigq) : requests[sigq[i].rid].status = "accepted"
          /\ \A i \in 1..Len(callbacks) : requests[callbacks[i].rid].status = "accepted"
          /\ busy_notices = CountSeq(requests, LAMBDA r : r.status = "dropped"))
    /\ [][(CallMade /\ IsRunning(worker)) =>
             /\ requests'[Len(requests')].status = "dropped"
             /\ busy_notices' = busy_notices + 1
             /\ worker' = worker
             /\ current_command' = current_command
             /\ exec' = exec
             /\ (sigq' = sigq \/ (sigq # <<>> /\ sigq' = Tail(sigq)))
             /\ \A i \in 1..Len(callbacks') :
                   callbacks'[i].rid # Len(requests') /\
                   (i > Len(callbacks) => callbacks'[i].kind = "success")]_vars

\* a timer tick has been dropped while a command runs
BusyDropSeen ==
    /\ IsRunning(worker)
    /\ busy_notices > 0
    /\ \E i \in Rids : requests[i] = Request("dropped", "timer")

\* the worker of request rid has not yet emitted its result
Pending(rid) == worker.id = rid /\ worker.pc \in {"start", "call"}

\* C3: every accepted request gets exactly one completion callback, success or
\* error, whatever its command function did; until it is handled the result is
\* one queued signal, and no request loses its result to an exception.
OneCallbackPerRequest ==
    \A rid \in Rids :
        /\ CallbacksOf(rid) <= 1
        /\ requests[rid].status = "accepted" =>
               CallbacksOf(rid) + QueuedOf(rid) = (IF Pending(rid) THEN 0 ELSE 1)
        /\ requests[rid].status = "dropped" => CallbacksOf(rid) + QueuedOf(rid) = 0

\* a success has been handled and an exception other than SlurmError is reported
UnexpectedErrorReported ==
    /\ \E i \in 1..Len(callbacks) : callbacks[i].kind = "success"
    /\ \E i \in 1..Len(sigq) :
          sigq[i].sig = "error" /\ StartsWith(sigq[i].text, <<"Unexpected error: ">>)

\* C4: every accepted request finishes: a running worker ends (its command
\* returns or times out), the next call is then accepted, and the worker is
\* never idle while its child process is still running.
WorkerAlwaysFinishes ==
    /\ [](IsRunning(worker) => <>(~IsRunning(worker)))
    /\ [](~IsRunning(worker) => ~exec["worker"].alive)
    /\ [][(CallMade /\ ~IsRunning(worker)) =>
             /\ requests'[Len(requests')].status = "accepted"
             /\ IsRunning(worker')
             /\ worker'.id = Len(requests')]_vars

\* a read_job_output request has ended after its scontrol timed out
TimedOutReadFinished ==
    /\ worker.func = "read_job_output"
    /\ worker.pc = "done"
    /\ \E i \in 1..Len(sigq) :
          sigq[i].rid = worker.id /\ StartsWith(sigq[i].text, <<"Command timed out: ">>)

\* C5: for an existing readable file that has only grown since the offset was
\* its size, a poll of a stream adds exactly the M bytes beyond the offset,
\* unaltered and once, and moves the offset by M; with M = 0 it adds nothing
\* and leaves the offset where it is, never beyond the end of the file.
PollAddsAppendedBytes ==
    [][update_logs =>
         \A s \in Streams :
             (Truthy(path[s]) /\ file[s].exists /\ file[s].readable /\ in_step[s]) =>
                 LET M == Len(file[s].data) - pos[s]
                 IN /\ M >= 0
                    /\ pos'[s] = pos[s] + M
                    /\ pos'[s] <= Len(file[s].data)
                    /\ text'[s] = IF M = 0 THEN text[s]
                                  ELSE Append(text[s], ReadFrom(file[s].data, pos[s]))]_vars

\* C6: the offset of each stream is 0 when the dialog is created and never
\* decreases while the dialog lives, whatever happens to the file: growth,
\* removal, a read error, truncation or replacement.
OffsetNeverDecreases ==
    /\ [](\A s \in Streams : pos[s] \in 0..MaxFileLen)
    /\ [][\A s \in Streams :
             /\ (~timer_active /\ timer_active') => pos'[s] = 0
             /\ timer_active => pos'[s] >= pos[s]]_vars

\* a stream whose file was truncated after it was read keeps its offset,
\* beyond the end of the file, across a failed poll
OffsetKeptBeyondEnd ==
    /\ timer_active
    /\ file["stdout"].exists
    /\ pos["stdout"] > Len(file["stdout"].data)
    /\ failed["stdout"]
    /\ ~file["stderr"].exists
    /\ pos["stderr"] > 0

\* C10: per stream, a read failure other than file-not-found is shown as a
\* placeholder exactly once per dialog: by the first failing poll, whatever the
\* offset, and by no later one; the timer keeps running.
PlaceholderShownOnce ==
    \A s \in Streams :
        /\ failed[s] => (nshown[s] = 1 /\ placeholder[s] = ReadError)
        /\ ~failed[s] => (nshown[s] = 0 /\ placeholder[s] = Waiting(s))

\* the row the reference parser emits for a line of tokens
ReferenceRow(tokens) ==
    [job_id |-> tokens[1], partition |-> tokens[2], name |-> tokens[3],
     user |-> tokens[4], state |-> tokens[5], time |-> tokens[6], nodes |-> tokens[7],
     nodelist |-> JoinWith(SubSeq(tokens, 8, Len(tokens)), <<" ">>)]
Emits(l) == l.ntok >= 8 /\ l.first = "digits"
ReferenceRows(l) ==
    LET kept == SelectSeq(l.lines, Emits)
    IN [k \in 1..Len(kept) |-> ReferenceRow(TokensOf(kept[k]))]

Emitted == worker.pc = "call" /\ worker'.pc = "emitted" /\ Len(sigq') = Len(sigq) + 1
LastSignal == sigq'[Len(sigq')]

\* C8: a child that has not exited within Timeout makes the call fail with
\* "Command timed out", and by the time that is reported the child has been
\* killed: no timed-out child is alive once its request is reported.
TimeoutReportedChildKilled ==
    /\ [](\A t \in Threads :
             /\ exec[t].sub.exc = "TimeoutExpired" =>
                    (~exec[t].alive /\ exec[t].elapsed = Timeout)
             /\ exec[t].st = "wait" => exec[t].alive)
    /\ [](worker.pc \in {"emitted", "done"} => ~exec["worker"].alive)
    /\ [][(exec["worker"].st = "wait" /\ exec["worker"].elapsed >= Timeout
              /\ exec'["worker"] # exec["worker"])
             => exec'["worker"].sub = Failed("TimeoutExpired")]_vars
    /\ [][(worker.pc = "call" /\ worker'.pc = "emitted") =>
             /\ Len(sigq') = Len(sigq) + 1
             /\ (exec["worker"].sub.exc = "TimeoutExpired") <=>
                    (/\ LastSignal.sig = "error"
                     /\ LastSignal.text = <<"Command timed out: ">>
                                             \o JoinSp(exec["worker"].command))]_vars

\* an sbatch that ran into the timeout has been reported
TimeoutReported ==
    /\ worker.func = "sbatch"
    /\ ~exec["worker"].alive
    /\ \E i \in 1..Len(sigq) :
          /\ sigq[i].rid = worker.id
          /\ sigq[i].text = <<"Command timed out: ">> \o JoinSp(sbatch_cmd(SCRIPT))

Operations == {"squeue", "sinfo", "scancel", "scancel_all", "sbatch", "scontrol_show_job"}
ToolFailed(tool) ==
    CASE tool = <<"squeue">> -> "squeue failed: "
      [] tool = <<"sinfo">> -> "sinfo failed: "
      [] tool = <<"scancel">> -> "scancel failed: "
      [] tool = <<"sbatch">> -> "sbatch failed: "
      [] tool = <<"scontrol">> -> "scontrol failed: "

\* C9: each of squeue, sinfo, scancel, scancel_all, sbatch and scontrol_show_job
\* fails with "<tool> failed: <stderr>" whenever its tool exits non-zero, and
\* then never hands back the tool's stdout; on a zero exit it does not fail so.
NonZeroExitFails ==
    [][(Emitted /\ worker.func \in Operations /\ exec["worker"].sub.kind = "completed") =>
          LET sub == exec["worker"].sub
              failure == <<ToolFailed(exec["worker"].command[1])>> \o sub.err
          IN IF sub.rc # 0
             THEN LastSignal.sig = "error" /\ LastSignal.text = failure
             ELSE LastSignal.sig = "finished" /\ LastSignal.text # failure]_vars

\* a failed scancel -u has been reported with the tool's stderr
FailedCancelReported ==
    /\ worker.func = "scancel_all"
    /\ \E i \in 1..Len(sigq) :
          /\ sigq[i].rid = worker.id
          /\ sigq[i].sig = "error"
          /\ sigq[i].text = <<"scancel failed: ", "e">>

\* C11: a poll of a stream that has no path, or whose file does not exist,
\* adds no text, changes no placeholder, reports no error and leaves the
\* offset alone; when the file is there at a later poll, that poll reads it
\* from the stored offset.
MissingFileIsSilent ==
    [][update_logs =>
         \A s \in Streams :
             /\ (~Truthy(path[s]) \/ ~file[s].exists) =>
                    /\ text'[s] = text[s]
                    /\ pos'[s] = pos[s]
                    /\ placeholder'[s] = placeholder[s]
                    /\ nshown'[s] = nshown[s]
                    /\ failed'[s] = failed[s]
             /\ (Truthy(path[s]) /\ file[s].exists /\ file[s].readable) =>
                    /\ text'[s] = IF ReadFrom(file[s].data, pos[s]) = <<>> THEN text[s]
                                  ELSE Append(text[s], RStrip(ReadFrom(file[s].data, pos[s])))
                    /\ pos'[s] = IF ReadFrom(file[s].data, pos[s]) = <<>> THEN pos[s]
                                 ELSE Len(file[s].data)]_vars

\* update_logs has just run on a stream whose file vanished after one byte of
\* it was read: the byte is still shown, the offset is still 1, nothing else is
SilentPollAfterRemoval ==
    /\ timer_active
    /\ polled
    /\ Truthy(path["stdout"])
    /\ ~file["stdout"].exists
    /\ pos["stdout"] = 1
    /\ text["stdout"] = << <<"a">> >>
    /\ placeholder["stdout"] = Waiting("stdout")
    /\ ~failed["stdout"]

\* the places of a marker in a text, and the text from the symbol after place
\* i up to the next whitespace
PlacesOf(t, marker) == {i \in 1..Len(t) : t[i] = marker}
Last(S) == CHOOSE i \in S : \A j \in S : j <= i
WordAfter(t, i) ==
    LET stops == {j \in (i + 1)..Len(t) : t[j] \in Whitespace}
        end == IF stops = {} THEN Len(t) ELSE (CHOOSE j \in stops : \A k \in stops : j <= k) - 1
    IN SubSeq(t, i + 1, end)
\* the path the claim gives a marker: none, or the word after its last occurrence
LastPath(t, marker) ==
    IF PlacesOf(t, marker) = {} THEN None ELSE WordAfter(t, Last(PlacesOf(t, marker)))
\* every occurrence of a marker has a value right behind it
ValuesGiven(t) ==
    \A i \in PlacesOf(t, "StdOut=") \cup PlacesOf(t, "StdErr=") :
        i < Len(t) /\ t[i + 1] \in {"a", "b"}

\* C12: for every job detail text whose markers have values, get_job_output_files
\* returns for StdOut= and for StdErr= none when the marker is absent, and
\* otherwise the text after the last occurrence of the marker in the whole
\* text, on whatever line, up to the next whitespace.
LastOccurrenceWins ==
    (extracted # NotExtracted /\ ValuesGiven(detail)) =>
        /\ extracted.kind = "return"
        /\ extracted.val = << LastPath(detail, "StdOut="), LastPath(detail, "StdErr=") >>

\* C17: get_job_output_files returns a pair of paths for every text of an
\* scontrol that exited with status 0, an empty value behind a marker
\* included, so that read_job_output fails with a SlurmError or not at all.
ExtractionIsTotal ==
    extracted # NotExtracted =>
        /\ extracted.kind = "return"
        /\ \A output_type \in Streams, f \in FileOutcomes :
              LET r == read_job_output(<<"7">>, output_type, Completed(detail, <<>>, 0), f)
              IN r.kind = "raise" => r.exc = "SlurmError"

\* the four outcomes of a run_command
OutcomeOf(r) ==
    IF r.kind = "return" THEN "CommandResult"
    ELSE IF r.exc # "SlurmError" THEN "escaped"
    ELSE IF r.val[1] = "Command timed out: " THEN "Timeout"
    ELSE IF r.val[1] = "Command not found: " THEN "NotFound"
    ELSE IF r.val[1] = "Error running command: " THEN "Unexpected"
    ELSE "other"

\* C13: when a call of subprocess.run has come back, one child was launched
\* for it and no second one, and run_command ends in the outcome of its
\* cause: the output, error output and exit status of a child that exited, a
\* timeout naming the command, a missing program naming it, or any other
\* failure with the message of the underlying exception.
OneSpawnOneOutcome ==
    \A t \in Threads :
        exec[t].st = "ret" =>
            LET c == exec[t]
                r == run_command(c.command, c.sub)
            IN /\ c.spawns = 1
               /\ ~c.alive
               /\ OutcomeOf(r) =
                      (IF c.sub.kind = "completed" THEN "CommandResult"
                       ELSE IF c.sub.exc = "TimeoutExpired" THEN "Timeout"
                       ELSE IF c.sub.exc = "FileNotFoundError" THEN "NotFound"
                       ELSE "Unexpected")
               /\ OutcomeOf(r) = "CommandResult" =>
                      r.val = [stdout |-> c.sub.out, stderr |-> c.sub.err,
                               returncode |-> c.sub.rc]
               /\ OutcomeOf(r) = "Timeout" => Tail(r.val) = JoinSp(c.command)
               /\ OutcomeOf(r) = "NotFound" => Tail(r.val) = c.command[1]
               /\ OutcomeOf(r) = "Unexpected" => Tail(r.val) = <<c.sub.exc>>

\* a command whose program is missing has come back from subprocess.run
ProgramMissing ==
    /\ exec["worker"].st = "ret"
    /\ exec["worker"].sub = Failed("FileNotFoundError")
    /\ exec["worker"].spawns = 1

\* the message scancel and scancel_all make up when the tool prints nothing
Confirmation(w) ==
    IF w.func = "scancel"
    THEN <<"Job ">> \o w.args.job_id \o <<" cancelled successfully">>
    ELSE <<"All jobs for user ">> \o w.args.user \o <<" cancelled successfully">>

\* C14: when scancel or scancel -u exits with status 0, the worker emits
\* finished (never error) with the standard output unchanged if there is any,
\* and otherwise with a confirmation that embeds the job id, respectively the
\* user name; and a finished signal is handled as a success callback.
CancelReportsSuccess ==
    [][/\ (/\ worker.pc = "call" /\ worker'.pc = "emitted"
           /\ worker.func \in {"scancel", "scancel_all"}
           /\ exec["worker"].sub.kind = "completed"
           /\ exec["worker"].sub.rc = 0)
          => sigq' = Append(sigq,
                        [rid |-> worker.id, name |-> worker.name, sig |-> "finished",
                         text |-> IF exec["worker"].sub.out # <<>>
                                  THEN exec["worker"].sub.out
                                  ELSE Confirmation(worker)])
       /\ (callbacks' # callbacks /\ Head(sigq).sig = "finished")
          => callbacks' = Append(callbacks, [rid |-> Head(sigq).rid, kind |-> "success"])
      ]_vars

\* a silent scancel -u was reported with the made-up confirmation
SilentCancelAllConfirmed ==
    /\ sigq # <<>>
    /\ Head(sigq).sig = "finished"
    /\ Head(sigq).text = <<"All jobs for user ">> \o USER \o <<" cancelled successfully">>
    /\ worker.func = "scancel_all"

\* the interactive thread handles a queued signal in this step
Handled == callbacks' # callbacks

\* C15: whenever on_command_success or on_command_error handles a signal,
\* current_command is the name of the request whose worker emitted it, so
\* that the job table changes only with the output of a squeue request.
CallbackSeesOwnCommand ==
    [][Handled =>
          /\ current_command = Head(sigq).name
          /\ job_table' # job_table => StartsWith(Head(sigq).name, <<"squeue">>)]_vars

\* the signal handled in this step is the success of a cancel or a submission
\* that current_command still names
ChangeSucceeded ==
    /\ Handled
    /\ Head(sigq).sig = "finished"
    /\ current_command = Head(sigq).name
    /\ \/ StartsWith(Head(sigq).name, <<"scancel">>)
       \/ StartsWith(Head(sigq).name, <<"sbatch">>)

\* C16: when the success of an scancel, scancel -u or sbatch request is
\* handled, the follow-up refresh is accepted and a squeue worker is started;
\* it is not dropped as busy on account of the worker that has just emitted.
FollowUpRefreshStarts ==
    [][ChangeSucceeded =>
          /\ Len(requests') = Len(requests) + 1
          /\ requests'[Len(requests')] = Request("accepted", "followup")
          /\ worker'.pc = "start"
          /\ worker'.func = "squeue"]_vars

====
